---- MODULE Spec2Model ----
(***************************************************************************)
(* Model of the resume analyzer backend (src/server.js): one route,        *)
(* POST /analyze, guarded by multer's upload.single("file") middleware,    *)
(* followed by an async handler that extracts the PDF text, sends it to    *)
(* the remote model and relays the parsed JSON answer.                     *)
(*                                                                         *)
(* Each request is a little process whose handling is cut at the two       *)
(* await points of the handler (parser.getText() and                       *)
(* ai.models.generateContent()).  The two collaborators are black boxes:   *)
(* their results are drawn from small sets.  Thrown values are objects or  *)
(* primitives other than null/undefined (reading .message of those would   *)
(* itself throw inside the catch block).                                   *)
(***************************************************************************)
EXTENDS Integers, Sequences, FiniteSets, TLC

\* Number of requests in flight in one run of the server.
NumRequests == 2

Requests == 1..NumRequests

\* limits.fileSize of the multer instance.
FileSizeLimit == 10 * 1024 * 1024

-----------------------------------------------------------------------------
(* Request inputs *)

\* The byte contents that may be uploaded and their sizes.
Contents == {"docA", "docB", "docBig"}

SizeOf(c) ==
    CASE c = "docA" -> 2048
      [] c = "docB" -> FileSizeLimit
      [] c = "docBig" -> FileSizeLimit + 1

NoFile == [present |-> FALSE, fieldname |-> "", mimetype |-> "", content |-> ""]

FilePart(f, m, c) == [present |-> TRUE, fieldname |-> f, mimetype |-> m, content |-> c]

\* The multipart bodies a client may send: no file part at all, or one file
\* part with a field name, a declared MIME type and some bytes.
Uploads ==
    { NoFile,
      FilePart("file", "application/pdf", "docA"),
      FilePart("file", "application/pdf", "docB"),
      FilePart("file", "application/pdf", "docBig"),
      FilePart("file", "text/plain", "docA"),
      FilePart("resume", "application/pdf", "docA") }

-----------------------------------------------------------------------------
(* Errors and responses *)

\* A thrown value as the catch block sees it: whether it has a message
\* property and the message itself.
ErrorOf(m) == [hasMessage |-> TRUE, message |-> m]

NoError == [hasMessage |-> FALSE, message |-> ""]

\* What a collaborator may throw: an Error with a message, an Error with an
\* empty message, a value without a message property (a thrown string).
Thrown == { ErrorOf("boom"), ErrorOf(""), NoError }

\* Text of the JSON documents: an object is the sequence of its members as
\* written, each member a key and a literal.
Member(k, l) == [key |-> k, lit |-> l]

ObjectText(ms) == [kind |-> "object", members |-> ms]

NullText == [kind |-> "null", members |-> <<>>]

MalformedText == [kind |-> "malformed", members |-> <<>>]

NoJson == [kind |-> "none", members |-> <<>>]

NoResponse ==
    [status |-> 0, type |-> "", hasError |-> FALSE, error |-> "",
     hasAnalysis |-> FALSE, analysis |-> NoJson]

\* res.status(s).json({ error: msg })
JsonError(s, msg) ==
    [status |-> s, type |-> "application/json", hasError |-> TRUE, error |-> msg,
     hasAnalysis |-> FALSE, analysis |-> NoJson]

\* res.status(s).json({ analysis }) : the body carries the serialised value.
JsonAnalysis(s, text) ==
    [status |-> s, type |-> "application/json", hasError |-> FALSE, error |-> "",
     hasAnalysis |-> TRUE, analysis |-> text]

\* What Express answers when a middleware calls next(err) and the application
\* registers no error-handling middleware: the error carries no status, so
\* the status is 500, and the body is an HTML page.
DefaultErrorHandler(err) ==
    [status |-> 500, type |-> "text/html", hasError |-> FALSE, error |-> "",
     hasAnalysis |-> FALSE, analysis |-> NoJson]

-----------------------------------------------------------------------------
(* The upload gate: multer({ storage, limits, fileFilter }).single("file") *)

\* The field name upload.single() accepts.
IsExpectedField(file) == file.fieldname = "file"

\* fileFilter: cb(null, true) unless the declared MIME type differs.
IsAllowedMimeType(file) == file.mimetype = "application/pdf"

\* limits.fileSize is handed to the multipart parser.  Parsers differ on a
\* file of exactly the limit: the older ones truncate only past the limit,
\* the newer ones raise the limit event as soon as the limit is reached.
\* inclusive tells which one the build has.
IsTooLarge(file, inclusive) ==
    IF inclusive THEN SizeOf(file.content) > FileSizeLimit
                 ELSE SizeOf(file.content) >= FileSizeLimit

\* What the middleware does with the request: "next" when it calls next()
\* plainly (req.file is set when a file part was accepted and stays unset
\* when the body has no file part), else the error it passes to next(err).
UploadVerdict(file, inclusive) ==
    IF ~file.present THEN "next"
    ELSE IF ~IsExpectedField(file) THEN "LIMIT_UNEXPECTED_FILE"
    ELSE IF ~IsAllowedMimeType(file) THEN "Only PDF files are allowed"
    ELSE IF IsTooLarge(file, inclusive) THEN "LIMIT_FILE_SIZE"
    ELSE "next"

\* The handler without its check of req.file.
MissingFileNever(file) == FALSE

\* !req.file
MissingFile(file) == ~file.present

-----------------------------------------------------------------------------
(* Text extraction *)

\* Strings are sequences of one-character strings.
WhiteSpace == {" ", "\t", "\n"}

RECURSIVE TrimStart(_)
TrimStart(s) ==
    IF s # <<>> /\ Head(s) \in WhiteSpace THEN TrimStart(Tail(s)) ELSE s

RECURSIVE TrimEnd(_)
TrimEnd(s) ==
    IF s # <<>> /\ s[Len(s)] \in WhiteSpace
    THEN TrimEnd(SubSeq(s, 1, Len(s) - 1))
    ELSE s

\* The text taken as the extractor gave it.
TrimNothing(s) == s

\* String.prototype.trim
Trim(s) == TrimEnd(TrimStart(s))

\* The result of parser.getText(): an object with a text, an object whose
\* text is missing, or a throw.
TextResult(s) == [kind |-> "text", text |-> s, err |-> NoError]

NoTextResult == [kind |-> "notext", text |-> <<>>, err |-> NoError]

ThrowResult(e) == [kind |-> "throw", text |-> <<>>, err |-> e]

Pending == [kind |-> "pending", text |-> <<>>, err |-> NoError]

ExtractTexts ==
    { <<>>, <<" ", "\n">>, <<" ", "a", "\t">>, <<"a", " ", "b">> }

ExtractOutcomes ==
    {TextResult(s) : s \in ExtractTexts} \cup {NoTextResult}
        \cup {ThrowResult(e) : e \in Thrown}

\* pdfData.text || ""
TextOrEmpty(result) == IF result.kind = "text" THEN result.text ELSE <<>>

\* (pdfData.text || "").trim()
ResumeText(result) == Trim(TextOrEmpty(result))

\* The handler without its check of the trimmed text.
IsBlankNever(text) == FALSE

\* !resumeText
IsBlank(text) == text = <<>>

NoReadableText == "No readable text found in PDF (the file might be an image scan)."

-----------------------------------------------------------------------------
(* The remote model and JSON *)

Num(n) == [t |-> "num", n |-> n, s |-> ""]

Str(s) == [t |-> "str", n |-> 0, s |-> s]

\* The value a literal of the text denotes.
LitValue(l) ==
    CASE l = "85" -> Num(85)
      [] l = "85.0" -> Num(85)
      [] l = "90" -> Num(90)
      [] l = "\"ok\"" -> Str("ok")

\* The literal JSON.stringify writes for a value.
ValueLit(v) == IF v.t = "num" THEN ToString(v.n) ELSE "\"" \o v.s \o "\""

\* The numeric value of a key that is a canonical array index, -1 otherwise.
IndexOf(k) ==
    CASE k = "1" -> 1
      [] k = "2" -> 2
      [] OTHER -> -1

IsIndexKey(k) == IndexOf(k) >= 0

Prop(k, v) == [key |-> k, val |-> v]

\* The place a new property takes in the object's own-property order:
\* index keys come first in ascending numeric order, the other keys follow
\* in the order of their creation.
InsertAt(props, k) ==
    IF IsIndexKey(k)
    THEN 1 + Cardinality({i \in 1..Len(props) :
                 IsIndexKey(props[i].key) /\ IndexOf(props[i].key) < IndexOf(k)})
    ELSE Len(props) + 1

\* obj[k] = v on the ordered own properties of an object.
SetProp(props, k, v) ==
    IF \E i \in 1..Len(props) : props[i].key = k
    THEN [i \in 1..Len(props) |->
             IF props[i].key = k THEN Prop(k, v) ELSE props[i]]
    ELSE LET at == InsertAt(props, k)
         IN  SubSeq(props, 1, at - 1) \o <<Prop(k, v)>> \o SubSeq(props, at, Len(props))

RECURSIVE BuildObject(_, _)
BuildObject(members, props) ==
    IF members = <<>> THEN props
    ELSE BuildObject(Tail(members),
                     SetProp(props, Head(members).key, LitValue(Head(members).lit)))

ObjectValue(props) == [kind |-> "object", props |-> props]

NullValue == [kind |-> "null", props |-> <<>>]

\* JSON.parse: the value, or a SyntaxError for a text that is no JSON (which
\* includes JSON.parse(undefined)).
JSONParse(text) ==
    CASE text.kind = "object" ->
             [ok |-> TRUE, value |-> ObjectValue(BuildObject(text.members, <<>>))]
      [] text.kind = "null" -> [ok |-> TRUE, value |-> NullValue]
      [] OTHER -> [ok |-> FALSE, value |-> NullValue]

\* JSON.stringify, as res.json applies it to the parsed value.
JSONStringify(value) ==
    IF value.kind = "object"
    THEN ObjectText([i \in 1..Len(value.props) |->
                        Member(value.props[i].key, ValueLit(value.props[i].val))])
    ELSE NullText

SyntaxError == ErrorOf("Unexpected token in JSON")

\* The texts the model may answer with.
ResponseTexts ==
    { ObjectText(<<>>),
      ObjectText(<<Member("ats_score", "85"), Member("structure", "\"ok\"")>>),
      ObjectText(<<Member("ats_score", "85.0"), Member("structure", "\"ok\"")>>),
      ObjectText(<<Member("structure", "\"ok\""), Member("1", "85")>>),
      ObjectText(<<Member("2", "85"), Member("1", "90")>>),
      ObjectText(<<Member("ats_score", "85"), Member("ats_score", "90")>>),
      NullText,
      MalformedText }

\* The result of ai.models.generateContent(): a completion with a text, a
\* completion whose text is missing, or a throw.
Completion(t) == [kind |-> "text", text |-> t, err |-> NoError]

NoTextCompletion == [kind |-> "notext", text |-> NoJson, err |-> NoError]

ThrowCompletion(e) == [kind |-> "throw", text |-> NoJson, err |-> e]

NoCompletion == [kind |-> "pending", text |-> NoJson, err |-> NoError]

ModelOutcomes ==
    {Completion(t) : t \in ResponseTexts} \cup {NoTextCompletion}
        \cup {ThrowCompletion(e) : e \in Thrown}

\* contents: [{ role: "user", parts: [{ text: resumeText }] }]
UserMessage(text) == text

\* The texts that may reach the model.
SentTexts == {ResumeText(o) : o \in ExtractOutcomes} \ {<<>>}

InternalError == "An internal server error occurred during analysis."

\* The catch block relaying error.message alone: no message, no error key.
CatchResponseNoDefault(err) ==
    [status |-> 500, type |-> "application/json", hasError |-> err.hasMessage,
     error |-> err.message, hasAnalysis |-> FALSE, analysis |-> NoJson]

\* The catch block: error.message || "An internal server error ..."
CatchResponse(err) ==
    JsonError(500, IF err.hasMessage /\ err.message # "" THEN err.message
                   ELSE InternalError)

\* The model's text relayed as it came, neither parsed nor re-serialised.
RelayResponseRaw(completion) == JsonAnalysis(200, completion.text)

\* Lines 104-111: parse completion.text and relay it, a SyntaxError going
\* to the catch block.
RelayResponse(completion) ==
    LET parsed == JSONParse(completion.text)
    IN  IF parsed.ok THEN JsonAnalysis(200, JSONStringify(parsed.value))
        ELSE CatchResponse(SyntaxError)

-----------------------------------------------------------------------------
(* State *)

VARIABLES
    pc,             \* the stage of each request
    req,            \* the multipart body each request carries
    reqFile,        \* req.file as the middleware leaves it
    pdfData,        \* what parser.getText() gave the request
    sent,           \* the user message handed to generateContent
    completion,     \* what generateContent gave the request
    response,       \* the response written for the request
    responses,      \* how many responses were written for the request
    extractCalls,   \* calls of parser.getText() made for the request
    remoteCalls,    \* calls of generateContent made for the request
    limitInclusive, \* whether the build's parser accepts a file of exactly the limit
    extractStub,    \* deterministic stand-in for the extractor: bytes -> result
    modelStub       \* deterministic stand-in for the model: text -> result

vars ==
    <<pc, req, reqFile, pdfData, sent, completion, response, responses,
      extractCalls, remoteCalls, limitInclusive, extractStub, modelStub>>

Init ==
    /\ pc = [r \in Requests |-> "Idle"]
    /\ req = [r \in Requests |-> NoFile]
    /\ reqFile = [r \in Requests |-> NoFile]
    /\ pdfData = [r \in Requests |-> Pending]
    /\ sent = [r \in Requests |-> <<>>]
    /\ completion = [r \in Requests |-> NoCompletion]
    /\ response = [r \in Requests |-> NoResponse]
    /\ responses = [r \in Requests |-> 0]
    /\ extractCalls = [r \in Requests |-> 0]
    /\ remoteCalls = [r \in Requests |-> 0]
    /\ limitInclusive \in BOOLEAN
    /\ extractStub = [c \in Contents |-> Pending]
    /\ modelStub = [t \in SentTexts |-> NoCompletion]

\* res.status(..).json(..) or the default error handler: the request is answered.
Respond(r, resp) ==
    /\ response' = [response EXCEPT ![r] = resp]
    /\ responses' = [responses EXCEPT ![r] = @ + 1]
    /\ pc' = [pc EXCEPT ![r] = "Responded"]

-----------------------------------------------------------------------------
(* Operations *)

\* A client sends POST /analyze with body u.
Arrive(r, u) ==
    /\ pc[r] = "Idle"
    /\ req' = [req EXCEPT ![r] = u]
    /\ pc' = [pc EXCEPT ![r] = "Uploading"]
    /\ UNCHANGED <<reqFile, pdfData, sent, completion, response, responses,
                   extractCalls, remoteCalls, limitInclusive, extractStub, modelStub>>

\* The middleware refuses the upload: next(err), the handler never runs and
\* Express's default error handler answers.
UploadRejected(r) ==
    /\ pc[r] = "Uploading"
    /\ UploadVerdict(req[r], limitInclusive) # "next"
    /\ Respond(r, DefaultErrorHandler(UploadVerdict(req[r], limitInclusive)))
    /\ UNCHANGED <<req, reqFile, pdfData, sent, completion,
                   extractCalls, remoteCalls, limitInclusive, extractStub, modelStub>>

\* Line 66 without its return: the 400 is written, the handler goes on, fails
\* on req.file.buffer and the catch block writes a second response.
HandlerNoFileNoReturn(r) ==
    /\ pc[r] = "Uploading"
    /\ UploadVerdict(req[r], limitInclusive) = "next"
    /\ MissingFile(req[r])
    /\ response' = [response EXCEPT ![r] = JsonError(400, "No file uploaded")]
    /\ responses' = [responses EXCEPT ![r] = @ + 2]
    /\ pc' = [pc EXCEPT ![r] = "Responded"]
    /\ UNCHANGED <<req, reqFile, pdfData, sent, completion,
                   extractCalls, remoteCalls, limitInclusive, extractStub, modelStub>>

\* The middleware calls next() without having set req.file: line 66.
HandlerNoFile(r) ==
    /\ pc[r] = "Uploading"
    /\ UploadVerdict(req[r], limitInclusive) = "next"
    /\ MissingFile(req[r])
    /\ Respond(r, JsonError(400, "No file uploaded"))
    /\ UNCHANGED <<req, reqFile, pdfData, sent, completion,
                   extractCalls, remoteCalls, limitInclusive, extractStub, modelStub>>

\* The handler with a cache of extraction results keyed by the file's bytes:
\* the extractor is called only for bytes not seen before.
HandlerExtractCached(r) ==
    /\ pc[r] = "Uploading"
    /\ UploadVerdict(req[r], limitInclusive) = "next"
    /\ ~MissingFile(req[r])
    /\ reqFile' = [reqFile EXCEPT ![r] = req[r]]
    /\ extractCalls' = [extractCalls EXCEPT ![r] =
                            IF extractStub[req[r].content] = Pending THEN @ + 1 ELSE @]
    /\ pc' = [pc EXCEPT ![r] = "Extracting"]
    /\ UNCHANGED <<req, pdfData, sent, completion, response, responses,
                   remoteCalls, limitInclusive, extractStub, modelStub>>

\* The middleware buffers the file into req.file and calls next(); the
\* handler runs up to its first await: lines 69-74, parser.getText() called.
HandlerExtract(r) ==
    /\ pc[r] = "Uploading"
    /\ UploadVerdict(req[r], limitInclusive) = "next"
    /\ ~MissingFile(req[r])
    /\ reqFile' = [reqFile EXCEPT ![r] = req[r]]
    /\ extractCalls' = [extractCalls EXCEPT ![r] = @ + 1]
    /\ pc' = [pc EXCEPT ![r] = "Extracting"]
    /\ UNCHANGED <<req, pdfData, sent, completion, response, responses,
                   remoteCalls, limitInclusive, extractStub, modelStub>>

\* parser.getText() settles and the handler runs to its next await or to its
\* response: lines 74-86.  With det the extractor is a deterministic
\* stand-in: the same bytes give the same result.
ExtractReturn(r, det) ==
    /\ pc[r] = "Extracting"
    /\ \E o \in ExtractOutcomes :
          /\ det => extractStub[reqFile[r].content] \in {Pending, o}
          /\ extractStub' = IF det THEN [extractStub EXCEPT ![reqFile[r].content] = o]
                                   ELSE extractStub
          /\ pdfData' = [pdfData EXCEPT ![r] = o]
          /\ IF o.kind = "throw"
             THEN /\ Respond(r, CatchResponse(o.err))
                  /\ UNCHANGED <<sent, remoteCalls>>
             ELSE IF IsBlank(ResumeText(o))
             THEN /\ Respond(r, JsonError(400, NoReadableText))
                  /\ UNCHANGED <<sent, remoteCalls>>
             ELSE /\ sent' = [sent EXCEPT ![r] = UserMessage(ResumeText(o))]
                  /\ remoteCalls' = [remoteCalls EXCEPT ![r] = @ + 1]
                  /\ pc' = [pc EXCEPT ![r] = "Requesting"]
                  /\ UNCHANGED <<response, responses>>
    /\ UNCHANGED <<req, reqFile, completion, extractCalls, limitInclusive, modelStub>>

\* generateContent() settles and the handler runs to its response: lines
\* 86-111, or the catch block.
RemoteReturn(r, det) ==
    /\ pc[r] = "Requesting"
    /\ \E c \in ModelOutcomes :
          /\ det => modelStub[sent[r]] \in {NoCompletion, c}
          /\ modelStub' = IF det THEN [modelStub EXCEPT ![sent[r]] = c] ELSE modelStub
          /\ completion' = [completion EXCEPT ![r] = c]
          /\ IF c.kind = "throw"
             THEN Respond(r, CatchResponse(c.err))
             ELSE Respond(r, RelayResponse(c))
    /\ UNCHANGED <<req, reqFile, pdfData, sent, extractCalls, remoteCalls,
                   limitInclusive, extractStub>>

Next ==
    \E r \in Requests :
        \/ \E u \in Uploads : Arrive(r, u)
        \/ UploadRejected(r)
        \/ HandlerNoFile(r)
        \/ HandlerExtract(r)
        \/ ExtractReturn(r, FALSE)
        \/ RemoteReturn(r, FALSE)

Spec == Init /\ [][Next]_vars

\* The same server against deterministic collaborators.
NextDet ==
    \E r \in Requests :
        \/ \E u \in Uploads : Arrive(r, u)
        \/ UploadRejected(r)
        \/ HandlerNoFile(r)
        \/ HandlerExtract(r)
        \/ ExtractReturn(r, TRUE)
        \/ RemoteReturn(r, TRUE)

SpecDet == Init /\ [][NextDet]_vars

TypeOK ==
    /\ pc \in [Requests -> {"Idle", "Uploading", "Extracting", "Requesting", "Responded"}]
    /\ req \in [Requests -> Uploads]
    /\ \A r \in Requests : reqFile[r] \in {NoFile, req[r]}
    /\ pdfData \in [Requests -> ExtractOutcomes \cup {Pending}]
    /\ sent \in [Requests -> SentTexts \cup {<<>>}]
    /\ completion \in [Requests -> ModelOutcomes \cup {NoCompletion}]

-----------------------------------------------------------------------------
(* Vocabulary of the properties, stated without the handler's own helpers *)

Answered(r) == pc[r] = "Responded"

IsJsonError(resp) ==
    /\ resp.type = "application/json"
    /\ resp.hasError
    /\ ~resp.hasAnalysis

NoCollaboratorCalled(r) ==
    /\ extractCalls[r] = 0
    /\ remoteCalls[r] = 0
    /\ pdfData[r] = Pending
    /\ completion[r] = NoCompletion

AllWhiteSpace(s) == \A i \in 1..Len(s) : s[i] \in {" ", "\t", "\n"}

\* t is s without its leading and trailing white space.
IsTrimOf(t, s) ==
    \E a, b \in 0..Len(s) :
        /\ a + b <= Len(s)
        /\ t = SubSeq(s, a + 1, Len(s) - b)
        /\ AllWhiteSpace(SubSeq(s, 1, a))
        /\ AllWhiteSpace(SubSeq(s, Len(s) - b + 1, Len(s)))
        /\ t # <<>> => ~AllWhiteSpace(<<t[1]>>) /\ ~AllWhiteSpace(<<t[Len(t)]>>)

IsJsonText(text) == text.kind \in {"object", "null"}

\* The file the gate is meant to let through.
Acceptable(file) ==
    /\ file.present
    /\ file.fieldname = "file"
    /\ file.mimetype = "application/pdf"
    /\ SizeOf(file.content) <= 10 * 1024 * 1024

-----------------------------------------------------------------------------
(* Claims *)

\* C1: a request whose file declares a MIME type other than application/pdf
\* is answered 400 and neither collaborator is invoked for it.
C1_WrongTypeAnswered400 ==
    \A r \in Requests :
        (Answered(r) /\ req[r].present /\ req[r].mimetype # "application/pdf")
            => response[r].status = 400 /\ NoCollaboratorCalled(r)

\* C2: a request whose file is larger than 10 MiB is answered 400 and the
\* extractor is not invoked for it; a file of 10 MiB or less is not refused
\* for its size.
C2_TooLargeAnswered400 ==
    \A r \in Requests :
        Answered(r) =>
            /\ (req[r].present /\ SizeOf(req[r].content) > 10 * 1024 * 1024)
                   => response[r].status = 400 /\ extractCalls[r] = 0
            /\ Acceptable(req[r]) => reqFile[r] = req[r]

\* C3: every failing request is answered with a JSON body that has an error
\* string and no analysis.
C3_FailureIsJsonError ==
    \A r \in Requests :
        (Answered(r) /\ response[r].status # 200) => IsJsonError(response[r])

\* C4: a request without a file part is answered 400 with a JSON error and
\* neither collaborator is ever invoked for it.
C4_NoFileAnswered400 ==
    \A r \in Requests :
        (pc[r] # "Idle" /\ ~req[r].present) =>
            /\ NoCollaboratorCalled(r)
            /\ pc[r] \in {"Uploading", "Responded"}
            /\ Answered(r) => response[r].status = 400 /\ IsJsonError(response[r])

C4_Witness ==
    \E r \in Requests : Answered(r) /\ ~req[r].present /\ response[r].status = 400

\* C5: when extraction returns and the text is missing or is white space
\* only, the request is answered 400 with the no-readable-text message and the
\* remote model is not invoked.
C5_BlankTextAnswered400 ==
    \A r \in Requests :
        (pdfData[r].kind \in {"text", "notext"} /\ AllWhiteSpace(pdfData[r].text)) =>
            /\ Answered(r)
            /\ response[r] = JsonError(400, NoReadableText)
            /\ remoteCalls[r] = 0
            /\ completion[r] = NoCompletion

C5_Witness ==
    \E r, q \in Requests :
        /\ Answered(r) /\ pdfData[r] = TextResult(<<" ", "\n">>)
        /\ Answered(q) /\ pdfData[q] = NoTextResult

\* The members of a JSON object text as keys and values, in textual order.
MembersOf(text) ==
    [i \in 1..Len(text.members) |->
        Prop(text.members[i].key, LitValue(text.members[i].lit))]

KeysOf(text) == {text.members[i].key : i \in 1..Len(text.members)}

\* The value the last member of the text with key k has.
LastValue(text, k) ==
    LET at == CHOOSE i \in 1..Len(text.members) :
                  /\ text.members[i].key = k
                  /\ \A j \in (i + 1)..Len(text.members) : text.members[j].key # k
    IN  LitValue(text.members[at].lit)

\* No key twice and no key that is an array index.
PlainObjectText(text) ==
    /\ \A i, j \in 1..Len(text.members) :
           text.members[i].key = text.members[j].key => i = j
    /\ \A i \in 1..Len(text.members) : text.members[i].key \notin {"1", "2"}

\* The requests C6 is about: the extractor gave text that is not blank and
\* the model answered with the text of a JSON object.
ObjectRelayed(r) ==
    /\ Answered(r)
    /\ pdfData[r].kind = "text"
    /\ ~AllWhiteSpace(pdfData[r].text)
    /\ completion[r].kind = "text"
    /\ completion[r].text.kind = "object"

C7_FaultAnswered500 ==
    \A r \in Requests :
        /\ ( \/ pdfData[r].kind = "throw"
             \/ completion[r].kind = "throw"
             \/ completion[r].kind \in {"text", "notext"} /\ ~IsJsonText(completion[r].text) )
             => /\ Answered(r)
                /\ response[r].status = 500
                /\ IsJsonError(response[r])
                /\ response[r].error # ""
                /\ responses[r] = 1
        /\ pdfData[r].kind = "throw" => remoteCalls[r] = 0 /\ completion[r] = NoCompletion

C7_Witness ==
    \E r, q \in Requests :
        /\ Answered(r) /\ pdfData[r] = ThrowResult(NoError)
        /\ Answered(q) /\ completion[q] \in {Completion(MalformedText), NoTextCompletion}

\* C8: against deterministic collaborators two requests with the same upload
\* get the same response, and each request that passes the gate makes its own
\* extraction call and, when its text is not blank, its own model call.
C8_RequestsIndependent ==
    /\ \A r, q \in Requests :
           (Answered(r) /\ Answered(q) /\ req[r] = req[q]) => response[r] = response[q]
    /\ \A r \in Requests :
           /\ pdfData[r] # Pending => extractCalls[r] = 1
           /\ completion[r] # NoCompletion => remoteCalls[r] = 1
           /\ (Answered(r) /\ response[r].type = "application/json" /\ req[r].present)
                  => extractCalls[r] = 1
           /\ (Answered(r) /\ response[r].status = 200) => remoteCalls[r] = 1

C8_Witness ==
    \E r, q \in Requests :
        /\ r # q
        /\ Answered(r) /\ Answered(q)
        /\ req[r] = req[q]
        /\ response[r].status = 200
        /\ extractCalls[r] = 1 /\ extractCalls[q] = 1
        /\ remoteCalls[r] = 1 /\ remoteCalls[q] = 1

\* C9: a request has an analysis only with status 200, and only after the
\* gate accepted its file, the extractor gave text that is not blank and the
\* model call returned JSON text.
C9_AnalysisImpliesPipeline ==
    \A r \in Requests :
        /\ response[r].hasAnalysis <=> response[r].status = 200
        /\ response[r].hasAnalysis =>
               /\ Acceptable(req[r]) /\ reqFile[r] = req[r]
               /\ extractCalls[r] = 1
               /\ pdfData[r].kind = "text" /\ ~AllWhiteSpace(pdfData[r].text)
               /\ remoteCalls[r] = 1
               /\ completion[r].kind = "text" /\ IsJsonText(completion[r].text)

C9_Witness ==
    \E r \in Requests :
        /\ response[r].hasAnalysis
        /\ req[r].content = "docB"
        /\ completion[r].text = NullText

SuccessSteps ==
    { <<"Idle", "Uploading">>, <<"Uploading", "Extracting">>,
      <<"Extracting", "Requesting">>, <<"Requesting", "Responded">> }

FailureSteps == { <<"Uploading", "Responded">>, <<"Extracting", "Responded">> }

\* C10: every step of a request is the next stage of Idle, Uploading,
\* Extracting, Requesting, Responded or a failure straight to Responded with
\* an error; an answered request never changes again; a request gets at most
\* one response, one extraction call and one model call, the model call only
\* when the extraction has returned.
C10_StagesInOrder ==
    [][\A r \in Requests :
          /\ pc'[r] # pc[r] => <<pc[r], pc'[r]>> \in SuccessSteps \cup FailureSteps
          /\ <<pc[r], pc'[r]>> \in FailureSteps => response'[r].status \in {400, 500}
          /\ pc[r] = "Responded" =>
                 /\ pc'[r] = "Responded"
                 /\ response'[r] = response[r] /\ responses'[r] = responses[r]
                 /\ extractCalls'[r] = extractCalls[r] /\ remoteCalls'[r] = remoteCalls[r]
          /\ responses'[r] = (IF pc'[r] = "Responded" THEN 1 ELSE 0)
          /\ extractCalls'[r] <= 1 /\ remoteCalls'[r] <= 1
          /\ extractCalls'[r] # extractCalls[r] => <<pc[r], pc'[r]>> = <<"Uploading", "Extracting">>
          /\ remoteCalls'[r] # remoteCalls[r] =>
                 /\ <<pc[r], pc'[r]>> = <<"Extracting", "Requesting">>
                 /\ pdfData'[r].kind = "text"
      ]_vars

C10_Witness ==
    \E r, q \in Requests :
        /\ Answered(r) /\ response[r].status = 200
        /\ responses[r] = 1 /\ extractCalls[r] = 1 /\ remoteCalls[r] = 1
        /\ Answered(q) /\ response[q].status = 500 /\ extractCalls[q] = 1 /\ remoteCalls[q] = 0

====
